---- MODULE Spec2Model ----
(***************************************************************************)
(* Model of the retrieval core of deep-flow:                               *)
(*   src/src/rag/mongodb.py  MongoDBRetriever                              *)
(*   src/src/rag/builder.py  build_retriever                               *)
(*   src/verify_retrieval.py a caller that passes a Resource to a query    *)
(* Python strings are TLA+ strings handled with Len, SubSeq and \o, so     *)
(* that str.replace, str.split, str.lower, the f-string keys and the       *)
(* substring test are computed character by character as Python does.      *)
(* An exception is modelled by a "raised" flag in the outcome of the       *)
(* operator that models the function; the try/except blocks of the source  *)
(* decide where such a flag is cleared.                                    *)
(***************************************************************************)
EXTENDS Integers, Sequences, FiniteSets, TLC

VARIABLES
    \* ---- fields of the one MongoDBRetriever instance (mongodb.py 22-45)
    self_uri,                   \* self.uri, the connection string
    collection_name,            \* self.collection_name
    file_meta_collection_name,  \* self.file_meta_collection_name
    client,                     \* self.client: 0 is None, k > 0 the k-th MongoClient
    db,                         \* self.db: 0 is None, else the client it belongs to
    collection,                 \* self.collection: 0 is None, else its client
    embedding_model,            \* self.embedding_model: 0 is None, 1 the model
    \* ---- the environment of the instance
    clients_created,            \* how many MongoClient objects were constructed
    ping_succeeded,             \* a liveness ping has succeeded on this instance
    store,                      \* collection name -> response of its vector search
    listing,                    \* response of db.list_collection_names()
    \* ---- the arguments the caller passes
    query,                      \* [given, text]: the query argument
    resources,                  \* [given, list]: the resources argument
    \* ---- the last call and what it did
    op,                         \* "none", "query", "list" or "build"
    ret,                        \* the value the call returned (<<>> when it raised)
    raised,                     \* the call propagated an exception to its caller
    connect_raised,             \* _connect raised inside the call
    embed_calls,                \* embed_query invocations made by the call
    embed_failed,               \* the embedding step raised inside the call
    targets,                    \* the collections the fan-out loop iterated, in order
    searched,                   \* the collections on which aggregate was issued, in order
    logged,                     \* the connection-parameters line the call's _connect
                                \* logged ("" when it logged none)
    \* ---- the callers that share the instance
    threads,                    \* thread -> [pc, call, tmp]: where the thread stands in
                                \* its call, which call it is, and the object its
                                \* current statement has loaded
    \* ---- the process of build_retriever (builder.py)
    SELECTED_RAG_PROVIDER,      \* module constant of src.config.tools ("" is unset)
    MONGODB_URI,                \* os.getenv("MONGODB_URI") ("" is unset)
    instances,                  \* MongoDBRetriever objects constructed so far
    builds                      \* build_retriever calls made so far

vars == << self_uri, collection_name, file_meta_collection_name, client, db, collection,
           embedding_model, clients_created, ping_succeeded, store, listing,
           query, resources, op, ret, raised, connect_raised, embed_calls,
           embed_failed, targets, searched, logged, threads,
           SELECTED_RAG_PROVIDER, MONGODB_URI, instances, builds >>

\* ------------------------------------------------------------------ bounds
\* longest resources list a caller passes
MaxResources == 2
\* most records one collection's vector search returns
MaxResults == 2
\* most collection names the store lists
MaxListed == 3
\* most build_retriever calls in one process
MaxBuilds == 6
\* most threads that call the instance at the same time
MaxThreads == 2

\* ------------------------------------------------------- Python strings
\* str.find(p, i) with 1-based positions: the least k >= i at which p occurs
\* in s, 0 when there is none.
RECURSIVE Find(_, _, _)
Find(s, p, i) ==
    IF i + Len(p) - 1 > Len(s) THEN 0
    ELSE IF SubSeq(s, i, i + Len(p) - 1) = p THEN i
    ELSE Find(s, p, i + 1)

\* the tail of s.replace(old, new) from position i: leftmost occurrences,
\* not overlapping, the replacement text is not scanned again
RECURSIVE ReplaceFrom(_, _, _, _)
ReplaceFrom(s, old, new, i) ==
    LET k == Find(s, old, i)
    IN  IF k = 0 THEN SubSeq(s, i, Len(s))
        ELSE SubSeq(s, i, k - 1) \o new \o ReplaceFrom(s, old, new, k + Len(old))

\* s.replace("", new) from position i: new stands before every character
\* and after the last one
RECURSIVE InsertFrom(_, _, _)
InsertFrom(s, new, i) ==
    IF i > Len(s) THEN new
    ELSE new \o SubSeq(s, i, i) \o InsertFrom(s, new, i + 1)

\* s.replace(old, new)
PyReplace(s, old, new) ==
    IF old = "" THEN InsertFrom(s, new, 1) ELSE ReplaceFrom(s, old, new, 1)

RECURSIVE SplitFrom(_, _, _)
SplitFrom(s, sep, i) ==
    LET k == Find(s, sep, i)
    IN  IF k = 0 THEN << SubSeq(s, i, Len(s)) >>
        ELSE << SubSeq(s, i, k - 1) >> \o SplitFrom(s, sep, k + Len(sep))

\* s.split(sep): the list of the pieces between the separators
PySplit(s, sep) == SplitFrom(s, sep, 1)

\* sub in s
PyIn(sub, s) == Find(s, sub, 1) # 0

UpperLetters == "ABCDEFGHIJKLMNOPQRSTUVWXYZ"
LowerLetters == "abcdefghijklmnopqrstuvwxyz"

\* the lower-case letter of each upper-case letter
LowerOf ==
    [ch \in {SubSeq(UpperLetters, k, k) : k \in 1..Len(UpperLetters)} |->
        LET k == Find(UpperLetters, ch, 1) IN SubSeq(LowerLetters, k, k)]

RECURSIVE LowerFrom(_, _)
LowerFrom(s, i) ==
    IF i > Len(s) THEN ""
    ELSE LET ch == SubSeq(s, i, i)
         IN  (IF ch \in DOMAIN LowerOf THEN LowerOf[ch] ELSE ch) \o LowerFrom(s, i + 1)

\* s.lower()
PyLower(s) == LowerFrom(s, 1)

\* ------------------------------------------------------- configuration
\* mongodb.py 25: the database name (its default)
db_name == "deep_flow"
\* mongodb.py 26-28: the default of self.collection_name
DefaultCollection == "documents"
\* mongodb.py 29-31: the default of self.file_meta_collection_name
DefaultFileMeta == "_filemeta"
\* Python's None for an object handle
None == 0

\* ------------------------------------------------ MongoDBRetriever state
\* the fields of the instance that the calls read and write
Self == [client |-> client, db |-> db, collection |-> collection,
         embedding_model |-> embedding_model,
         collection_name |-> collection_name,
         clients_created |-> clients_created,
         ping_succeeded |-> ping_succeeded]

\* what the store does when a call connects: "conn_fails" is
\* MongoClient(self.uri) raising, "ping_fails" is
\* client.admin.command('ping') raising
ConnOutcomes == {"ok", "conn_fails", "ping_fails"}

\* _connect (mongodb.py 60-75). The three handles are assigned before the
\* ping, and the except clause re-raises without clearing them.
connect(self, conn) ==
    IF self.client # None THEN [self |-> self, raised |-> FALSE]
    ELSE IF conn = "conn_fails" THEN [self |-> self, raised |-> TRUE]
    ELSE LET k  == self.clients_created + 1
             s1 == [self EXCEPT !.client = k, !.db = k, !.collection = k,
                                !.clients_created = k]
         IN  IF conn = "ping_fails"
             THEN [self |-> s1, raised |-> TRUE]
             ELSE [self |-> [s1 EXCEPT !.ping_succeeded = TRUE], raised |-> FALSE]

\* mongodb.py 72: the connection string as the except clause of _connect
\* writes it to the log: the text between the last // and the first @ of
\* what precedes the first @ is replaced wherever it occurs
masked_uri(u) ==
    IF PyIn("@", u)
    THEN LET before == PySplit(PySplit(u, "@")[1], "//")
         IN  PyReplace(u, before[Len(before)], "***:***")
    ELSE "mongodb://***"

\* mongodb.py 73: the connection-parameters line of a failed connection
connection_parameters(u, col) ==
    "Connection parameters: URI=" \o masked_uri(u) \o ", DB=" \o db_name
        \o ", Collection=" \o col

\* the outcomes of the embedding provider in one call
EmbedOutcomes == {"ok", "init_fails", "call_fails"}

\* _init_embedding_model (mongodb.py 47-58): OpenAIEmbeddings(**kwargs) is
\* built once; "init_fails" is its constructor raising.
init_embedding_model(self, embed) ==
    IF self.embedding_model # None THEN [self |-> self, raised |-> FALSE]
    ELSE IF embed = "init_fails" THEN [self |-> self, raised |-> TRUE]
    ELSE [self |-> [self EXCEPT !.embedding_model = 1], raised |-> FALSE]

\* an embedding step that invokes embed_query a second time when the first
\* invocation raises
get_embedding_retry(self, text, embed) ==
    LET i == init_embedding_model(self, embed)
    IN  IF i.raised
        THEN [self |-> i.self, raised |-> TRUE, calls |-> 0, value |-> << >>]
        ELSE IF embed = "call_fails"
        THEN [self |-> i.self, raised |-> TRUE, calls |-> 2, value |-> << >>]
        ELSE [self |-> i.self, raised |-> FALSE, calls |-> 1,
              value |-> << "vec", text >>]

\* _get_embedding (mongodb.py 77-80): the vector of a text is opaque,
\* <<"vec", text>>; calls counts the embed_query invocations.
get_embedding(self, text, embed) ==
    LET i == init_embedding_model(self, embed)
    IN  IF i.raised
        THEN [self |-> i.self, raised |-> TRUE, calls |-> 0, value |-> << >>]
        ELSE IF embed = "call_fails"
        THEN [self |-> i.self, raised |-> TRUE, calls |-> 1, value |-> << >>]
        ELSE [self |-> i.self, raised |-> FALSE, calls |-> 1,
              value |-> << "vec", text >>]

\* ------------------------------------------------- resource resolution
\* a parse that takes the last part of the URI for the collection
parse_collection_last(uri) ==
    LET parts == PySplit(PyReplace(uri, "mongodb://", ""), "/")
    IN  IF Len(parts) >= 2 THEN << parts[Len(parts)] >> ELSE << >>

\* mongodb.py 102-104: the collection a resource URI names, as the list of
\* what the loop body appends for it (nothing when there are < 2 parts)
parse_collection(uri) ==
    LET parts == PySplit(PyReplace(uri, "mongodb://", ""), "/")
    IN  IF Len(parts) >= 2 THEN << parts[2] >> ELSE << >>

RECURSIVE parse_all(_, _)
parse_all(list, i) ==
    IF i > Len(list) THEN << >>
    ELSE parse_collection(list[i].uri) \o parse_all(list, i + 1)

\* mongodb.py 91-110: collections_to_query after the loop and the fallback
collections_to_query(self, res) ==
    LET parsed == IF res.given /\ Len(res.list) > 0
                  THEN parse_all(res.list, 1) ELSE << >>
    IN  IF Len(parsed) = 0 THEN << self.collection_name >> ELSE parsed

Range(f) == {f[i] : i \in DOMAIN f}

\* the orders in which "for col_name in set(collections_to_query)" may
\* visit the set (mongodb.py 114): Python fixes no order for a set of str
SetOrders(S) ==
    {p \in [1..Cardinality(S) -> S] : \A i, j \in DOMAIN p : p[i] = p[j] => i = j}

\* ------------------------------------------------------- the fan-out
\* dict.get(key, default) on a result record
Get(res, key, default) == IF key \in DOMAIN res THEN res[key] ELSE default

\* str(res.get("_id")): the record identifiers of the model are strings
PyStr(v) == v

\* a key that leaves the collection out
UniqueId_without_collection(col_name, doc_id) == doc_id

\* mongodb.py 151: unique_id = f"{col_name}:{doc_id}"
UniqueId(col_name, doc_id) == col_name \o ":" \o doc_id

\* the text that tags the record a collection returns at a position; the
\* code never reads the content, so the tag stands for any content
Tag(col, i) == col \o "#" \o ToString(i)

\* the records collection.aggregate(pipeline) yields for a response: the
\* i-th has the i-th identifier; the first carries every projected field,
\* the later ones only _id and the content field
Records(col, ids) ==
    [i \in 1..Len(ids) |->
        IF i = 1
        THEN [_id |-> ids[i], text |-> Tag(col, i), title |-> "T-" \o Tag(col, i),
              url |-> "U-" \o Tag(col, i), score |-> 100 - i]
        ELSE [_id |-> ids[i], text |-> Tag(col, i)]]

\* a merge that stores a new Document under the key whether or not the key
\* is present, so an earlier Document of the key and its chunks are lost
merge_record_overwrite(all_documents, col_name, res) ==
    LET unique_id == UniqueId(col_name, PyStr(Get(res, "_id", "None")))
        fresh     == [id |-> unique_id, url |-> Get(res, "url", ""),
                      title |-> Get(res, "title", "Untitled"),
                      chunks |-> << [content |-> Get(res, "text", ""),
                                     similarity |-> Get(res, "score", 0)] >>]
    IN  IF \E k \in DOMAIN all_documents : all_documents[k].id = unique_id
        THEN [k \in DOMAIN all_documents |->
                IF all_documents[k].id = unique_id THEN fresh ELSE all_documents[k]]
        ELSE Append(all_documents, fresh)

\* mongodb.py 144-159: one record merged into all_documents, which is kept
\* as the sequence of its values in insertion order
merge_record(all_documents, col_name, res) ==
    LET doc_id    == PyStr(Get(res, "_id", "None"))
        content   == Get(res, "text", "")
        title     == Get(res, "title", "Untitled")
        url       == Get(res, "url", "")
        score     == Get(res, "score", 0)
        unique_id == UniqueId(col_name, doc_id)
        chunk     == [content |-> content, similarity |-> score]
        present   == \E k \in DOMAIN all_documents : all_documents[k].id = unique_id
        docs1     == IF present THEN all_documents
                     ELSE Append(all_documents,
                                 [id |-> unique_id, url |-> url, title |-> title,
                                  chunks |-> << >>])
    IN  [k \in DOMAIN docs1 |->
            IF docs1[k].id = unique_id
            THEN [docs1[k] EXCEPT !.chunks = Append(@, chunk)]
            ELSE docs1[k]]

RECURSIVE merge_results(_, _, _, _)
merge_results(all_documents, col_name, results, i) ==
    IF i > Len(results) THEN all_documents
    ELSE merge_results(merge_record(all_documents, col_name, results[i]),
                       col_name, results, i + 1)

\* an except clause that lets the failure of one collection end the loop
search_except_abort(acc) == acc

\* mongodb.py 161-163: the except clause of one collection logs and
\* continues; the documents gathered so far are kept
search_except(acc) == [acc EXCEPT !.raised = FALSE]

\* mongodb.py 115-159: the body of the loop for one collection. self.db[""]
\* raises InvalidName before a search is issued; a failing search raises in
\* list(collection.aggregate(pipeline)), before any record is merged.
search_collection(acc, st, col_name) ==
    IF col_name = ""
    THEN search_except([acc EXCEPT !.raised = TRUE])
    ELSE LET acc1 == [acc EXCEPT !.searched = Append(@, col_name)]
         IN  IF ~st[col_name].ok
             THEN search_except([acc1 EXCEPT !.raised = TRUE])
             ELSE [acc1 EXCEPT !.docs =
                     merge_results(@, col_name, Records(col_name, st[col_name].ids), 1)]

\* mongodb.py 112-165: the loop over the visiting order; an exception that
\* leaves a loop body ends the loop
RECURSIVE fan_out(_, _, _, _)
fan_out(acc, st, order, i) ==
    IF i > Len(order) \/ acc.raised THEN acc
    ELSE fan_out(search_collection(acc, st, order[i]), st, order, i + 1)

\* an except clause that raises again instead of returning []
query_except_reraise(out) == [out EXCEPT !.ret = << >>, !.raised = TRUE]

\* mongodb.py 167-169: the except clause of the whole call logs and
\* returns []
query_except(out) == [out EXCEPT !.ret = << >>, !.raised = FALSE]

\* what a call reports when it has done nothing yet
NoOutcome(self) ==
    [self |-> self, ret |-> << >>, raised |-> FALSE, connect_raised |-> FALSE,
     embed_calls |-> 0, embed_failed |-> FALSE, targets |-> << >>,
     searched |-> << >>]

\* query_relevant_documents (mongodb.py 82-169). order is the order in
\* which the set of resolved collections is visited.
query_relevant_documents(self, q, res, st, conn, embed, order) ==
    LET c == connect(self, conn)
    IN  IF c.raised
        THEN query_except([NoOutcome(c.self) EXCEPT !.raised = TRUE,
                                                    !.connect_raised = TRUE])
        ELSE
        LET e == get_embedding(c.self, q, embed)
        IN  IF e.raised
            THEN query_except([NoOutcome(e.self) EXCEPT !.raised = TRUE,
                                                        !.embed_calls = e.calls,
                                                        !.embed_failed = TRUE])
            ELSE
            LET f == fan_out([docs |-> << >>, searched |-> << >>, raised |-> FALSE],
                             st, order, 1)
                out == [NoOutcome(e.self) EXCEPT !.embed_calls = e.calls,
                                                 !.targets = order,
                                                 !.searched = f.searched,
                                                 !.ret = f.docs,
                                                 !.raised = f.raised]
            IN  IF f.raised THEN query_except(out) ELSE out

\* ------------------------------------------------------- list_resources
\* mongodb.py 191-197: the Resource of a collection
Resource(col_name) ==
    [uri |-> "mongodb://" \o db_name \o "/" \o col_name,
     title |-> col_name,
     description |-> "MongoDB Collection: " \o col_name]

\* mongodb.py 183: the companion a collection needs to be a valid resource;
\* the suffix is the literal of the source, not self.file_meta_collection_name
has_filemeta(col, all_collections) ==
    (col \o "_filemeta") \in Range(all_collections)

\* mongodb.py 188: "query and query.lower() not in col_name.lower()" is false
keeps(q, col_name) ==
    ~(q.given /\ q.text # "" /\ ~PyIn(PyLower(q.text), PyLower(col_name)))

RECURSIVE list_from(_, _, _)
list_from(all_collections, q, i) ==
    IF i > Len(all_collections) THEN << >>
    ELSE (IF has_filemeta(all_collections[i], all_collections)
             /\ keeps(q, all_collections[i])
          THEN << Resource(all_collections[i]) >> ELSE << >>)
         \o list_from(all_collections, q, i + 1)

\* mongodb.py 198-199: the except clause logs; the resources gathered so
\* far (none: only the listing can raise) are returned
list_except(out) == [out EXCEPT !.raised = FALSE]

\* list_resources (mongodb.py 171-201). self._connect() stands before the
\* try block, so what it raises leaves the call.
list_resources(self, q, lst, conn) ==
    LET c == connect(self, conn)
    IN  IF c.raised
        THEN [NoOutcome(c.self) EXCEPT !.raised = TRUE, !.connect_raised = TRUE]
        ELSE IF ~lst.ok
        THEN list_except([NoOutcome(c.self) EXCEPT !.raised = TRUE])
        ELSE [NoOutcome(c.self) EXCEPT !.ret = list_from(lst.names, q, 1)]

\* ------------------------------------------------------- build_retriever
\* builder.py 10: RAGProvider.MONGODB.value, the name of the one provider
\* the builder supports
RAGProvider_MONGODB == "mongodb"

\* a builder whose fallback does not test that no provider is set
build_retriever_uri_first(provider, uri, count) ==
    IF provider = RAGProvider_MONGODB \/ uri # ""
    THEN [ret |-> count + 1, raised |-> FALSE, instances |-> count + 1]
    ELSE IF provider # ""
    THEN [ret |-> None, raised |-> TRUE, instances |-> count]
    ELSE [ret |-> None, raised |-> FALSE, instances |-> count]

\* a builder that keeps the first retriever it constructed and returns it
\* from every later call
build_retriever_cached(provider, uri, count) ==
    IF provider = RAGProvider_MONGODB \/ (provider = "" /\ uri # "")
    THEN IF count > 0
         THEN [ret |-> 1, raised |-> FALSE, instances |-> count]
         ELSE [ret |-> 1, raised |-> FALSE, instances |-> 1]
    ELSE IF provider # ""
    THEN [ret |-> None, raised |-> TRUE, instances |-> count]
    ELSE [ret |-> None, raised |-> FALSE, instances |-> count]

\* build_retriever (builder.py 8-19). ret is the number of the
\* MongoDBRetriever the call returns, None when it returns None or raises;
\* count is the number of MongoDBRetriever objects constructed so far.
build_retriever(provider, uri, count) ==
    IF provider = RAGProvider_MONGODB
    THEN [ret |-> count + 1, raised |-> FALSE, instances |-> count + 1]
    ELSE IF provider = "" /\ uri # ""
    THEN [ret |-> count + 1, raised |-> FALSE, instances |-> count + 1]
    ELSE IF provider # ""
    THEN [ret |-> None, raised |-> TRUE, instances |-> count]
    ELSE [ret |-> None, raised |-> FALSE, instances |-> count]

\* ------------------------------------------------------- inputs
SeqsUpTo(S, n) == UNION {[1..k -> S] : k \in 0..n}

Absent == [given |-> FALSE, list |-> << >>]
Given(l) == [given |-> TRUE, list |-> l]

\* a Resource a caller passes: only its uri is read (mongodb.py 102)
CallerResource(uri) == [uri |-> uri, title |-> "t", description |-> "d"]

\* the resources of the fan-out runs: none, one collection, the same one
\* twice, two and three collections in either order, with and without a URI
\* that has no collection segment. The collections a and a:b and the
\* record identifiers c and b:c are such that keys can coincide.
FanOutLists ==
    {<< >>,
     << "deep_flow" >>,
     << "mongodb://deep_flow/a" >>,
     << "mongodb://deep_flow/a", "mongodb://deep_flow/a" >>,
     << "mongodb://deep_flow/a", "mongodb://deep_flow/a:b" >>,
     << "mongodb://deep_flow/a:b", "mongodb://deep_flow/a" >>,
     << "deep_flow", "mongodb://deep_flow/a:b" >>,
     << "mongodb://deep_flow/a:b", "mongodb://deep_flow/documents",
        "mongodb://deep_flow/a" >>}
RecordIds == {"c", "b:c"}

\* a failing search, or the identifiers of the records a search returns
Responses == {[ok |-> FALSE, ids |-> << >>]}
             \cup {[ok |-> TRUE, ids |-> s] : s \in SeqsUpTo(RecordIds, MaxResults)}

\* the resources of the resolution runs
ResolveUris == {"mongodb://deep_flow/a", "mongodb://deep_flow/b/file_1/page_2",
                "store://deep_flow/a", "mongodb://deep_flow/",
                "mongodb://deep_flow", "a", "",
                "mongodb://deep_flow/mongodb://a"}

\* what the store lists, and the queries of the listing runs
ListedNames == {"papers", "papers_filemeta", "papers_meta", "Notes_2023",
                "Notes_2023_filemeta"}
Listings == {[ok |-> FALSE, names |-> << >>]}
            \cup {[ok |-> TRUE, names |-> s] :
                    s \in {t \in SeqsUpTo(ListedNames, MaxListed) :
                             \A i, j \in DOMAIN t : t[i] = t[j] => i = j}}
ListQueries == {[given |-> FALSE, text |-> ""], [given |-> TRUE, text |-> ""],
                [given |-> TRUE, text |-> "PAPER"], [given |-> TRUE, text |-> "notes"]}

Providers == {"", "mongodb", "milvus", "ragflow", "MongoDB"}
EnvUris == {"", "mongodb://localhost:27017", "mongodb+srv://user:pw@host"}

\* the connection strings of the masking runs: scheme, user, optional
\* password, host. User names and passwords are written with digits, which
\* occur nowhere else in a connection string nor in the fixed text of the
\* logged line; a password may hold an unescaped @ or //.
Schemes == {"mongodb://", "mongodb+srv://"}
Users == {"1", "14"}
Passwords == {"", "2", "23", "2@3", "2//3", "1"}
Hosts == {"h", "h.x/d"}
Credentials == {u \o (IF p = "" THEN "" ELSE ":" \o p) : u \in Users, p \in Passwords}
ConnectionStrings ==
    {sch \o c \o "@" \o h : sch \in Schemes, c \in Credentials, h \in Hosts}
    \cup {sch \o h : sch \in Schemes, h \in Hosts}
    \cup {"mongodb://@h"}

\* what the store lists in the round-trip runs: collections with their
\* _filemeta companions, one of them with a / in its name
RoundTripNames == {"papers", "papers_filemeta", "x/y", "x/y_filemeta",
                   "documents", "documents_filemeta"}
RoundTripListings ==
    {[ok |-> TRUE, names |-> s] :
        s \in {t \in SeqsUpTo(RoundTripNames, MaxListed) :
                 \A i, j \in DOMAIN t : t[i] = t[j] => i = j}}

\* ------------------------------------------------------- initial states
\* the instance as __init__ leaves it (mongodb.py 42-45)
InitInstance ==
    /\ client = None /\ db = None /\ collection = None /\ embedding_model = None
    /\ clients_created = 0 /\ ping_succeeded = FALSE

InitLast ==
    /\ op = "none" /\ ret = << >> /\ raised = FALSE /\ connect_raised = FALSE
    /\ logged = ""
    /\ embed_calls = 0 /\ embed_failed = FALSE /\ targets = << >> /\ searched = << >>

InitProcess ==
    /\ SELECTED_RAG_PROVIDER = "" /\ MONGODB_URI = "mongodb://localhost:27017"
    /\ instances = 1 /\ builds = 1

\* the connection string of a local store
LocalUri == "mongodb://localhost:27017"
InitUri == self_uri = LocalUri

\* the threads that can call the instance, none of them inside a call
Threads == 1..MaxThreads
InitThreads == threads = [t \in Threads |-> [pc |-> "idle", call |-> "none", tmp |-> None]]

\* fan-out runs: the resources of FanOutLists, any response of each
\* collection the call can target
Init ==
    /\ InitInstance /\ InitLast /\ InitProcess /\ InitThreads /\ InitUri
    /\ collection_name = DefaultCollection
    /\ file_meta_collection_name = DefaultFileMeta
    /\ query = [given |-> TRUE, text |-> "q"]
    /\ resources \in {Absent} \cup {Given([i \in DOMAIN l |-> CallerResource(l[i])]) :
                                      l \in FanOutLists}
    /\ store \in [Range(collections_to_query([collection_name |-> collection_name],
                                             resources)) -> Responses]
    /\ listing = [ok |-> TRUE, names |-> << "a", "a_filemeta" >>]

\* resolution runs: any resources over ResolveUris, either default collection
InitResolve ==
    /\ InitInstance /\ InitLast /\ InitProcess /\ InitThreads /\ InitUri
    /\ collection_name \in {DefaultCollection, "a"}
    /\ file_meta_collection_name = DefaultFileMeta
    /\ query = [given |-> TRUE, text |-> "q"]
    /\ resources \in {Absent} \cup {Given([i \in DOMAIN l |-> CallerResource(l[i])]) :
                                      l \in SeqsUpTo(ResolveUris, MaxResources)}
    /\ store \in [Range(collections_to_query([collection_name |-> collection_name],
                                             resources))
                    -> {[ok |-> FALSE, ids |-> << >>], [ok |-> TRUE, ids |-> << "c" >>]}]
    /\ listing = [ok |-> TRUE, names |-> << "a", "a_filemeta" >>]

\* listing runs: any listing, query and configured metadata suffix
InitList ==
    /\ InitInstance /\ InitLast /\ InitProcess /\ InitThreads /\ InitUri
    /\ collection_name = DefaultCollection
    /\ file_meta_collection_name \in {DefaultFileMeta, "_meta"}
    /\ query \in ListQueries
    /\ resources = Absent
    /\ store = [c \in {collection_name} |-> [ok |-> TRUE, ids |-> << "c" >>]]
    /\ listing \in Listings

\* builder runs: any provider setting and connection string, no instance yet
InitBuilder ==
    /\ InitInstance /\ InitLast /\ InitThreads /\ InitUri
    /\ collection_name = DefaultCollection
    /\ file_meta_collection_name = DefaultFileMeta
    /\ query = [given |-> TRUE, text |-> "q"]
    /\ resources = Absent
    /\ store = [c \in {collection_name} |-> [ok |-> TRUE, ids |-> << "c" >>]]
    /\ listing = [ok |-> TRUE, names |-> << >>]
    /\ SELECTED_RAG_PROVIDER \in Providers /\ MONGODB_URI \in EnvUris
    /\ instances = 0 /\ builds = 0

\* masking runs: any connection string, the default collection
InitMask ==
    /\ InitInstance /\ InitLast /\ InitProcess /\ InitThreads
    /\ self_uri \in ConnectionStrings
    /\ collection_name = DefaultCollection
    /\ file_meta_collection_name = DefaultFileMeta
    /\ query = [given |-> TRUE, text |-> "q"]
    /\ resources = Absent
    /\ store = [c \in {collection_name} |-> [ok |-> TRUE, ids |-> << "c" >>]]
    /\ listing = [ok |-> TRUE, names |-> << "a", "a_filemeta" >>]

\* round-trip runs: any listing; every collection a listed Resource can
\* resolve to answers or fails
InitRoundTrip ==
    /\ InitInstance /\ InitLast /\ InitProcess /\ InitThreads /\ InitUri
    /\ collection_name = DefaultCollection
    /\ file_meta_collection_name = DefaultFileMeta
    /\ query = [given |-> FALSE, text |-> ""]
    /\ resources = Absent
    /\ listing \in RoundTripListings
    /\ store \in [{collection_name}
                    \cup UNION {Range(parse_collection(Resource(listing.names[i]).uri)) :
                                  i \in DOMAIN listing.names}
                    -> {[ok |-> FALSE, ids |-> << >>], [ok |-> TRUE, ids |-> << "c" >>]}]

\* ------------------------------------------------------- actions
SetOutcome(name, out) ==
    /\ client' = out.self.client /\ db' = out.self.db
    /\ collection' = out.self.collection
    /\ embedding_model' = out.self.embedding_model
    /\ clients_created' = out.self.clients_created
    /\ ping_succeeded' = out.self.ping_succeeded
    /\ op' = name /\ ret' = out.ret /\ raised' = out.raised
    /\ connect_raised' = out.connect_raised
    /\ embed_calls' = out.embed_calls /\ embed_failed' = out.embed_failed
    /\ targets' = out.targets /\ searched' = out.searched
    /\ logged' = IF out.connect_raised
                 THEN connection_parameters(self_uri, collection_name) ELSE ""
    /\ UNCHANGED << self_uri, collection_name, file_meta_collection_name, store, listing,
                    query, resources, SELECTED_RAG_PROVIDER, MONGODB_URI,
                    instances, builds >>

\* the visiting orders a call is run with: every order of the resolved set
\* when the call reaches the loop, one order (which is then not read) when
\* connecting or embedding fails first
VisitingOrders(all, conn, embed) ==
    IF conn = "ok" /\ embed = "ok" THEN all ELSE {CHOOSE p \in all : TRUE}

\* the outcomes the store can have in a call: _connect reaches the store
\* only while self.client is None (mongodb.py 62)
ConnChoices == IF client = None THEN ConnOutcomes ELSE {"ok"}

\* the outcomes the embedding provider can have in a call: the constructor
\* runs only while self.embedding_model is None (mongodb.py 49)
EmbedChoices == IF embedding_model = None THEN EmbedOutcomes
                ELSE EmbedOutcomes \ {"init_fails"}

\* a caller calls query_relevant_documents(query, resources)
QueryRelevantDocuments ==
    \E all \in {SetOrders(Range(collections_to_query(Self, resources)))} :
    \E conn \in ConnChoices, embed \in EmbedChoices :
    \E order \in VisitingOrders(all, conn, embed) :
    \E out \in {query_relevant_documents(Self, query.text, resources, store,
                                         conn, embed, order)} :
        SetOutcome("query", out) /\ UNCHANGED threads

\* a caller calls list_resources(query)
ListResources ==
    \E conn \in ConnChoices :
        \E out \in {list_resources(Self, query, listing, conn)} :
            SetOutcome("list", out) /\ UNCHANGED threads

\* a caller calls build_retriever()
BuildRetriever ==
    /\ builds < MaxBuilds
    /\ LET b == build_retriever(SELECTED_RAG_PROVIDER, MONGODB_URI, instances)
       IN  /\ op' = "build" /\ ret' = b.ret /\ raised' = b.raised
           /\ instances' = b.instances
    /\ builds' = builds + 1
    /\ UNCHANGED << self_uri, collection_name, file_meta_collection_name, client, db,
                    collection, embedding_model, clients_created, ping_succeeded,
                    store, listing, query, resources, connect_raised, embed_calls,
                    embed_failed, targets, searched, logged, threads,
                    SELECTED_RAG_PROVIDER, MONGODB_URI >>

\* a caller takes one Resource of the list that list_resources returned and
\* makes it, unchanged, the only element of the resources of its next query
PassListed ==
    /\ op = "list" /\ ~raised
    /\ \E k \in DOMAIN ret : resources' = Given(<< ret[k] >>)
    /\ UNCHANGED << self_uri, collection_name, file_meta_collection_name, client,
                    db, collection, embedding_model, clients_created,
                    ping_succeeded, store, listing, query, op, ret, raised,
                    connect_raised, embed_calls, embed_failed, targets, searched,
                    logged, threads, SELECTED_RAG_PROVIDER, MONGODB_URI,
                    instances, builds >>

Next == QueryRelevantDocuments \/ ListResources
NextRoundTrip == ListResources \/ PassListed \/ QueryRelevantDocuments
NextBuilder == BuildRetriever

Spec == Init /\ [][Next]_vars
SpecResolve == InitResolve /\ [][Next]_vars
SpecList == InitList /\ [][Next]_vars
SpecBuilder == InitBuilder /\ [][NextBuilder]_vars
SpecMask == InitMask /\ [][Next]_vars
SpecRoundTrip == InitRoundTrip /\ [][NextRoundTrip]_vars

\* ------------------------------------------- concurrent first use
\* Several threads call the one instance. _connect (mongodb.py 60-75) takes
\* no lock, so its statements interleave; a statement that reads one
\* attribute of self and writes another is a load and a store, and another
\* thread can run between them.
scenario == << self_uri, collection_name, file_meta_collection_name, store, listing, query,
               resources, SELECTED_RAG_PROVIDER, MONGODB_URI, instances, builds >>
last_call == << op, ret, raised, connect_raised, embed_calls, embed_failed,
                targets, searched, logged >>

\* thread t goes to label pc holding the loaded object tmp
Goto(t, pc, tmp) == threads' = [threads EXCEPT ![t].pc = pc, ![t].tmp = tmp]

\* mongodb.py 87, 173: a thread enters query_relevant_documents or
\* list_resources; either one starts with self._connect()
Enter(t) ==
    /\ threads[t].pc = "idle"
    /\ \E name \in {"query", "list"} :
          threads' = [threads EXCEPT ![t] = [pc |-> "l62", call |-> name, tmp |-> None]]
    /\ UNCHANGED << client, db, collection, embedding_model, clients_created,
                    ping_succeeded, last_call, scenario >>

\* mongodb.py 62: if not self.client
ConnectTest(t) ==
    /\ threads[t].pc = "l62"
    /\ Goto(t, IF client = None THEN "l64" ELSE "returned", None)
    /\ UNCHANGED << client, db, collection, embedding_model, clients_created,
                    ping_succeeded, last_call, scenario >>

\* mongodb.py 64: self.client = MongoClient(self.uri); the constructor
\* returns a new client or raises, and then control is in the except clause
\* (70-75), which logs and raises again
ConnectNewClient(t) ==
    /\ threads[t].pc = "l64"
    /\ \/ /\ clients_created' = clients_created + 1
          /\ client' = clients_created + 1
          /\ Goto(t, "l65", None)
       \/ /\ Goto(t, "raised", None)
          /\ UNCHANGED << client, clients_created >>
    /\ UNCHANGED << db, collection, embedding_model, ping_succeeded, last_call,
                    scenario >>

\* mongodb.py 65: self.db = self.client[self.db_name], the load of
\* self.client: the database handle belongs to the client that is read
ConnectLoadClient(t) ==
    /\ threads[t].pc = "l65"
    /\ Goto(t, "l65_store", client)
    /\ UNCHANGED << client, db, collection, embedding_model, clients_created,
                    ping_succeeded, last_call, scenario >>

\* mongodb.py 65: the store to self.db
ConnectStoreDb(t) ==
    /\ threads[t].pc = "l65_store"
    /\ db' = threads[t].tmp
    /\ Goto(t, "l66", None)
    /\ UNCHANGED << client, collection, embedding_model, clients_created,
                    ping_succeeded, last_call, scenario >>

\* mongodb.py 66: self.collection = self.db[self.collection_name], the load
\* of self.db
ConnectLoadDb(t) ==
    /\ threads[t].pc = "l66"
    /\ Goto(t, "l66_store", db)
    /\ UNCHANGED << client, db, collection, embedding_model, clients_created,
                    ping_succeeded, last_call, scenario >>

\* mongodb.py 66: the store to self.collection
ConnectStoreCollection(t) ==
    /\ threads[t].pc = "l66_store"
    /\ collection' = threads[t].tmp
    /\ Goto(t, "l68", None)
    /\ UNCHANGED << client, db, embedding_model, clients_created,
                    ping_succeeded, last_call, scenario >>

\* mongodb.py 68: self.client.admin.command('ping') answers, or raises into
\* the except clause (70-75)
ConnectPing(t) ==
    /\ threads[t].pc = "l68"
    /\ \/ ping_succeeded' = TRUE /\ Goto(t, "returned", None)
       \/ UNCHANGED ping_succeeded /\ Goto(t, "raised", None)
    /\ UNCHANGED << client, db, collection, embedding_model, clients_created,
                    last_call, scenario >>

\* the statements of a call after its self._connect(): mongodb.py 88-169 for
\* a query, 174-201 for a listing. When _connect raised, the query's except
\* clause returns [] and the listing lets the exception go. When another
\* thread has set self.client but not yet self.db, self.db[col_name] (116)
\* raises in every loop body and self.db.list_collection_names() (178)
\* raises inside the try block.
rest_of_call(self, name, connect_failed, q, res, st, lst, embed, order) ==
    IF connect_failed
    THEN LET o == [NoOutcome(self) EXCEPT !.raised = TRUE, !.connect_raised = TRUE]
         IN  IF name = "query" THEN query_except(o) ELSE o
    ELSE IF self.db # None
    THEN IF name = "query"
         THEN query_relevant_documents(self, q.text, res, st, "ok", embed, order)
         ELSE list_resources(self, q, lst, "ok")
    ELSE IF name = "list"
    THEN list_except([NoOutcome(self) EXCEPT !.raised = TRUE])
    ELSE LET e == get_embedding(self, q.text, embed)
         IN  IF e.raised
             THEN query_except([NoOutcome(e.self) EXCEPT !.raised = TRUE,
                                                         !.embed_calls = e.calls,
                                                         !.embed_failed = TRUE])
             ELSE [NoOutcome(e.self) EXCEPT !.embed_calls = e.calls,
                                            !.targets = order]

\* a thread whose _connect has returned or raised runs the rest of its call
Return(t) ==
    /\ threads[t].pc \in {"returned", "raised"}
    /\ \E embed \in EmbedChoices :
       \E order \in SetOrders(Range(collections_to_query(Self, resources))) :
       \E out \in {rest_of_call(Self, threads[t].call, threads[t].pc = "raised",
                                 query, resources, store, listing, embed,
                                 order)} :
           SetOutcome(threads[t].call, out)
    /\ Goto(t, "done", None)

\* concurrent first use: a new instance, the default collection
InitConnect ==
    /\ InitInstance /\ InitLast /\ InitProcess /\ InitThreads /\ InitUri
    /\ collection_name = DefaultCollection
    /\ file_meta_collection_name = DefaultFileMeta
    /\ query = [given |-> TRUE, text |-> "q"]
    /\ resources = Absent
    /\ store = [c \in {collection_name} |-> [ok |-> TRUE, ids |-> << "c" >>]]
    /\ listing = [ok |-> TRUE, names |-> << "a", "a_filemeta" >>]

NextConnect ==
    \E t \in Threads :
        \/ Enter(t) \/ ConnectTest(t) \/ ConnectNewClient(t)
        \/ ConnectLoadClient(t) \/ ConnectStoreDb(t)
        \/ ConnectLoadDb(t) \/ ConnectStoreCollection(t)
        \/ ConnectPing(t) \/ Return(t)

SpecConnect == InitConnect /\ [][NextConnect]_vars

\* ===================================================================
\* Properties
\* ===================================================================
\* the last call was a query whose fan-out loop ran
QueryRan == op = "query" /\ ~connect_raised /\ ~embed_failed

\* the contents of the chunks of the k-th returned Document, in order
Contents(k) == [n \in DOMAIN ret[k].chunks |-> ret[k].chunks[n].content]

\* the k-th returned Document holds the chunk of the record tagged t
ChunkIn(k, t) == t \in Range(Contents(k))

\* the collections of the fan-out whose search returned
Answering == {c \in Range(targets) : c # "" /\ store[c].ok}
Failing == {c \in Range(targets) : c = "" \/ ~store[c].ok}

\* C1: query_relevant_documents returns a list and propagates no exception,
\* whatever fails inside it; when _connect or the embedding step fails the
\* list is empty.
C1_QueryNeverRaises ==
    op = "query" =>
        /\ ~raised
        /\ ret \in Seq([id : STRING, url : STRING, title : STRING,
                        chunks : Seq([content : STRING, similarity : Int])])
        /\ (connect_raised \/ embed_failed) => ret = << >>

C1_Witness ==
    /\ op = "query" /\ embed_failed /\ embed_calls = 1 /\ ret = << >> /\ ~raised

\* C3: whatever collections of the fan-out fail, and wherever they stand in
\* the visiting order, every record of every answering collection is in the
\* result, in the Document of its key, and no chunk comes from a failing
\* collection.
C3_FailureIsolation ==
    QueryRan =>
        /\ \A c \in Answering : \A i \in DOMAIN store[c].ids :
              \E k \in DOMAIN ret :
                  /\ ret[k].id = c \o ":" \o store[c].ids[i]
                  /\ ChunkIn(k, Tag(c, i))
        /\ \A c \in Failing : \A k \in DOMAIN ret : \A i \in 1..MaxResults :
              ~ChunkIn(k, Tag(c, i))

\* two collections are targeted, the first one visited fails and is the only
\* one that fails, and the other one's records are returned
C3_Witness ==
    /\ QueryRan /\ Len(targets) >= 2
    /\ Failing = {targets[1]}
    /\ Len(ret) > 0

\* C4: records with the same identifier returned by different collections
\* are in different Documents with distinct ids.
C4_DedupAcrossCollections ==
    QueryRan =>
        \A c1, c2 \in Answering : c1 # c2 =>
            \A i \in DOMAIN store[c1].ids : \A j \in DOMAIN store[c2].ids :
                store[c1].ids[i] = store[c2].ids[j] =>
                    \A k1, k2 \in DOMAIN ret :
                        (ChunkIn(k1, Tag(c1, i)) /\ ChunkIn(k2, Tag(c2, j)))
                            => (k1 # k2 /\ ret[k1].id # ret[k2].id)

C4_Witness ==
    /\ QueryRan
    /\ \E c1, c2 \in Answering :
          /\ c1 # c2
          /\ \E i \in DOMAIN store[c1].ids : \E j \in DOMAIN store[c2].ids :
                /\ store[c1].ids[i] = store[c2].ids[j]
                /\ \E k1, k2 \in DOMAIN ret :
                      ChunkIn(k1, Tag(c1, i)) /\ ChunkIn(k2, Tag(c2, j))

\* the tags of the records collection c returned with identifier r, in the
\* order in which they were returned
RECURSIVE GroupFrom(_, _, _)
GroupFrom(c, r, i) ==
    IF i > Len(store[c].ids) THEN << >>
    ELSE (IF store[c].ids[i] = r THEN << Tag(c, i) >> ELSE << >>)
         \o GroupFrom(c, r, i + 1)
Group(c, r) == GroupFrom(c, r, 1)

\* the chunks of the k-th Document that come from the records tagged in g
ChunksOf(k, g) == SelectSeq(Contents(k), LAMBDA t : t \in Range(g))

\* C5: the records one collection returned with one identifier are all in
\* one Document, that of their key, one chunk each in the order returned,
\* and in no other Document; no two returned Documents have the same id.
C5_MergeWithinCollection ==
    QueryRan =>
        /\ \A k1, k2 \in DOMAIN ret : ret[k1].id = ret[k2].id => k1 = k2
        /\ \A c \in Answering : \A r \in Range(store[c].ids) :
              \E k \in DOMAIN ret :
                  /\ ret[k].id = c \o ":" \o r
                  /\ ChunksOf(k, Group(c, r)) = Group(c, r)
                  /\ \A k2 \in DOMAIN ret \ {k} : ChunksOf(k2, Group(c, r)) = << >>

\* a collection returned the same identifier twice and the Document of the
\* key holds both chunks
C5_Witness ==
    /\ QueryRan
    /\ \E c \in Answering : \E r \in Range(store[c].ids) :
          /\ Len(Group(c, r)) >= 2
          /\ \E k \in DOMAIN ret : ChunksOf(k, Group(c, r)) = Group(c, r)

\* C2: list_resources returns the empty list and propagates no exception
\* whenever something fails inside it: connecting, the liveness ping, or
\* the listing of the collections.
C2_ListNeverRaises ==
    (op = "list" /\ (connect_raised \/ ~listing.ok)) => (~raised /\ ret = << >>)

\* ---- the form of a resource URI, read off the URI itself
\* the text after the scheme prefix <scheme>://, the whole URI without one
AfterScheme(uri) ==
    LET k == Find(uri, "://", 1)
    IN  IF k = 0 THEN uri ELSE SubSeq(uri, k + 3, Len(uri))

\* the /-delimited tokens after the scheme prefix
Segments(uri) == PySplit(AfterScheme(uri), "/")

\* the URI has a collection segment that can name a collection
NamesCollection(uri) == Len(Segments(uri)) >= 2 /\ Segments(uri)[2] # ""

\* <scheme>://<database>/<collection> and maybe more segments
HasUriForm(uri) ==
    LET k == Find(uri, "://", 1)
    IN  /\ k > 1
        /\ ~PyIn("/", SubSeq(uri, 1, k - 1))
        /\ Len(Segments(uri)) >= 2
        /\ Segments(uri)[1] # ""
        /\ Segments(uri)[2] # ""

\* the same with the scheme mongodb, the text mongodb:// occurring nowhere
\* but at the start
HasMongoForm(uri) ==
    /\ HasUriForm(uri)
    /\ Find(uri, "mongodb://", 1) = 1
    /\ Find(uri, "mongodb://", 2) = 0

Uris == {resources.list[i].uri : i \in DOMAIN resources.list}

\* C6: with resources absent, empty, or all without a usable collection
\* segment, the call searches the default configured collection and no
\* other.
C6_FallbackToDefault ==
    (QueryRan /\ \A u \in Uris : ~NamesCollection(u)) =>
        (targets = << collection_name >> /\ searched = << collection_name >>)

\* C7 as stated: a URI <scheme>://<database>/<collection>[/...] resolves to
\* <collection> whatever the scheme, and when every resource has the form
\* nothing else is targeted.
C7_AnySchemeResolves ==
    (QueryRan /\ Uris # {}) =>
        /\ \A u \in Uris : HasUriForm(u) => Segments(u)[2] \in Range(targets)
        /\ (\A u \in Uris : HasUriForm(u))
              => Range(targets) = {Segments(u)[2] : u \in Uris}

\* C7 as amended: a URI mongodb://<database>/<collection>[/...] in which
\* mongodb:// occurs only at the start resolves to <collection>, the
\* further segments are ignored, and when every resource is such a URI
\* exactly their collections are targeted.
C7_MongoSchemeResolves ==
    (QueryRan /\ Uris # {}) =>
        /\ \A u \in Uris : HasMongoForm(u) => Segments(u)[2] \in Range(targets)
        /\ (\A u \in Uris : HasMongoForm(u))
              => Range(targets) = {Segments(u)[2] : u \in Uris}

\* a URI with further segments was resolved to its collection and searched
C7_Witness ==
    /\ QueryRan
    /\ resources.given /\ Len(resources.list) = 1
    /\ resources.list[1].uri = "mongodb://deep_flow/b/file_1/page_2"
    /\ targets = << "b" >> /\ searched = << "b" >>

\* the titles of the returned Resources, in order
Titles == [k \in DOMAIN ret |-> ret[k].title]

\* the collections C8 says are listed: those whose companion, named with
\* the configured metadata suffix, is listed too and whose name contains
\* the query, case-insensitively, when a query is given
ListedAsResource(c) ==
    /\ (c \o file_meta_collection_name) \in Range(listing.names)
    /\ (query.given => PyIn(PyLower(query.text), PyLower(c)))

\* C8: list_resources returns, in listing order, one Resource for each
\* collection that has its metadata companion and matches the query, and
\* no other.
C8_ListsValidResources ==
    (op = "list" /\ ~connect_raised /\ listing.ok) =>
        /\ Titles = SelectSeq(listing.names, ListedAsResource)
        /\ \A k \in DOMAIN ret : ret[k] = Resource(ret[k].title)

\* C9: build_retriever constructs the retriever for the supported provider,
\* constructs it as a fallback when no provider is set and a connection
\* string is, raises for any other provider even with a connection string,
\* and returns None when neither is set.
C9_BuilderPrecedence ==
    op = "build" =>
        /\ SELECTED_RAG_PROVIDER = RAGProvider_MONGODB => (~raised /\ ret # None)
        /\ (SELECTED_RAG_PROVIDER = "" /\ MONGODB_URI # "") => (~raised /\ ret # None)
        /\ SELECTED_RAG_PROVIDER \notin {"", RAGProvider_MONGODB}
              => (raised /\ ret = None)
        /\ (SELECTED_RAG_PROVIDER = "" /\ MONGODB_URI = "") => (~raised /\ ret = None)

\* an unsupported provider with a connection string present: the call raised
C9_Witness ==
    /\ op = "build" /\ SELECTED_RAG_PROVIDER = "milvus" /\ MONGODB_URI # ""
    /\ raised /\ instances = 0

C11_ConnectOnlyAfterPing ==
    (op \in {"query", "list"} /\ ~connect_raised) => ping_succeeded

\* every thread has finished its call
AllDone == \A t \in Threads : threads[t].pc = "done"

\* C12: however concurrent first calls interleave, at most one client is
\* ever created for the instance, and when the calls are over the client,
\* database and collection handles belong to that one connection.
C12_SingletonConnection ==
    /\ clients_created <= 1
    /\ AllDone => (db = client /\ collection = client)

\* the position of the last occurrence of p in s that starts at or before
\* i, 0 when there is none
RECURSIVE FindLast(_, _, _)
FindLast(s, p, i) ==
    IF i < 1 THEN 0
    ELSE IF i + Len(p) - 1 <= Len(s) /\ SubSeq(s, i, i + Len(p) - 1) = p THEN i
    ELSE FindLast(s, p, i - 1)

\* the credential segment of a connection string: the text between the //
\* of the scheme and the @ that precedes the host, "" when there is none
CredentialSegment(u) ==
    LET start == Find(u, "//", 1)
        at    == FindLast(u, "@", Len(u))
    IN  IF start = 0 \/ at < start + 2 THEN ""
        ELSE SubSeq(u, start + 2, at - 1)

\* the characters user names and passwords are written with
SecretChars == {"1", "2", "3", "4"}

\* C13: when _connect fails on a connection string that embeds a credential
\* segment, the connection-parameters line it logs holds no character of
\* the user name or password.
C13_CredentialMasked ==
    (connect_raised /\ CredentialSegment(self_uri) # "") =>
        \A ch \in SecretChars :
            PyIn(ch, CredentialSegment(self_uri)) => ~PyIn(ch, logged)

\* what the fan-out loop gathers when it visits the targets in order p
Gathered(p) ==
    Range(fan_out([docs |-> << >>, searched |-> << >>, raised |-> FALSE],
                  store, p, 1).docs)

\* C14: for the targets and responses of a call, the Documents returned
\* (id, title, url and chunk sequence of each) are those that every other
\* visiting order of the same targets gathers.
C14_OrderIndependent ==
    QueryRan => \A p \in SetOrders(Range(targets)) : Gathered(p) = Range(ret)

\* C15: a query invokes the embedding function at most once and issues at
\* most one search per distinct resolved collection, and only on resolved
\* collections, whatever fails and however often a collection is named.
C15_NoRetries ==
    op = "query" =>
        /\ embed_calls <= 1
        /\ \A i, j \in DOMAIN searched : searched[i] = searched[j] => i = j
        /\ Range(searched) \subseteq Range(targets)

\* two resources name the same collection, whose one search fails
C15_Witness ==
    /\ QueryRan /\ resources.given /\ Len(resources.list) = 2
    /\ resources.list[1].uri = resources.list[2].uri
    /\ embed_calls = 1
    /\ searched = << "a" >> /\ ~store["a"].ok

\* C16: when the only resource of a query is a Resource that list_resources
\* returned for collection c, the query's fan-out targets c alone and the
\* one search it issues is on c.
C16_RoundTrip ==
    (QueryRan /\ resources.given) =>
        /\ targets = << resources.list[1].title >>
        /\ searched = << resources.list[1].title >>

====
